---------------------------- MODULE Spec2Model ----------------------------
(***************************************************************************)
(* Model of esp32-mp3-decoder/components/i2s/i2s_freertos.c: the I2S DMA   *)
(* output pipeline (i2sInit, i2s_isr, i2sPushSample, i2sGetUnderrunCnt)    *)
(* and the clock divider search of i2sSetRate.                             *)
(*                                                                         *)
(* Three agents take steps: the DMA hardware walking the descriptor ring,  *)
(* the interrupt handler i2s_isr, and the task that calls i2sInit and then *)
(* i2sPushSample.  Every register access and every FreeRTOS queue call of  *)
(* the handler is a step of its own, so the hardware and the task can act  *)
(* between any two of them.                                                *)
(***************************************************************************)
EXTENDS Integers, Sequences, FiniteSets, TLC

\* ------------------------------------------------------------------ bounds

\* Number of DMA buffers and frames per buffer of the modelled build.  The
\* macros come from i2s_freertos.h; the values are kept small here.
I2SDMABUFCNT == 3
I2SDMABUFLEN == 2
\* HwComplete stops once the underrun counter has reached this value.
MaxUnderrun == 2
\* The end-to-end scenario: buffers, frames per buffer, frames pushed.
E2E_BUFCNT == 4
E2E_BUFLEN == 128
E2E_FRAMES == 130
\* The pushed frames carry the values 1..SamplePeriod, in turn.
SamplePeriod == 2

\* ------------------------------------------------------- program constants

BASEFREQ == 160000000
\* bestfreq's initial value in i2sSetRate.
PLACEHOLDERFREQ == -10000
\* Rate of the i2sSetRate call in i2sInit.  The macro is defined in
\* i2s_freertos.h, which is not among the sources; the CD rate stands for it,
\* and nothing in the pipeline depends on the value.
I2S_DEFAULT_SAMPLE_RATE == 44100

NULL == 0 - 1
\* lastRead when the task holds no value read from the counter.
NoValue == 0 - 1
\* todo = Endless: the task pushes frames for ever.
Endless == 0 - 1

VARIABLES
    bufCnt,          \* I2SDMABUFCNT of this build
    bufLen,          \* I2SDMABUFLEN of this build
    initPc,          \* position of the task inside i2sInit
    allocY,          \* loop variable y of the allocation loop
    i2sBuf,          \* i2sBuf[y]: NULL, or the buffer y it points to
    lastStore,       \* the last store i2sPushSample made: buffer, index, value
    i2sBufDesc,      \* the descriptors
    queueCreated,    \* dmaQueue is a queue handle (xQueueCreate has run)
    dmaQueue,        \* the tokens in the queue, oldest first
    underrunCnt,
    ih,              \* TRUE once esp_intr_alloc and esp_intr_enable ran
    intEna,          \* I2S_INT_ENA_REG: the enabled bits
    intRaw,          \* raw interrupt bits of the peripheral
    outEofDesAddr,   \* I2S_OUT_EOF_DES_ADDR_REG
    outLink,         \* I2S_OUT_LINK_REG address field
    inLink,          \* I2S_IN_LINK_REG address field
    txStarted,       \* I2S_OUTLINK_START and I2S_TX_START are set
    hwCur,           \* descriptor the hardware is transmitting
    clk,             \* clock registers: [bits, bckdiv, clkmdiv]
    printed,         \* last line printed by i2sSetRate
    isrPc,           \* position of i2s_isr
    slc_intr_status, \* local of i2s_isr
    finishedDesc,    \* local of i2s_isr
    HPTaskAwoken,    \* local of i2s_isr
    yielded,         \* the last handler run called portYIELD_FROM_ISR
    pushPc,          \* position of the task inside i2sPushSample
    sample,          \* argument of the running i2sPushSample call
    currDMABuff,
    currDMABuffPos,
    todo,            \* frames the task still has to push (or Endless)
    phase,           \* frames pushed so far, modulo SamplePeriod
    lastRead,        \* value i2sGetUnderrunCnt returned to the task, until the
                     \* task's next call
    dequeues,        \* ghost: xQueueReceive calls that returned a token, counted
                     \* for a task with a finite number of frames to push
    runsNoUr,        \* ghost: handler runs that found the queue not full, in a
                     \* row, since the last dequeue
    isrSnap,         \* ghost: the queue and the counter as the running handler
                     \* found them when it found the queue full; dropped when
                     \* the task dequeues or the handler returns
    merged,          \* ghost: a completion arrived before the handler had picked
                     \* up the previous one
    late,            \* ghost: a completion arrived while the previous one was
                     \* pending or the handler was still running
    unread,          \* ghost: the hardware has raised a completion after the
                     \* running handler read the status, and the handler has
                     \* not yet cleared the status
    discarded,       \* ghost: the handler has removed a token from the queue
                     \* since the task's last dequeue
    woke,            \* ghost: the running handler has made the blocked task
                     \* ready
    req              \* ghost: the arguments of the last i2sSetRate call and its
                     \* local bestfreq after the loops

hwVars   == <<intRaw, outEofDesAddr, hwCur>>
isrVars  == <<isrPc, slc_intr_status, finishedDesc, HPTaskAwoken, yielded>>
initVars == <<initPc, allocY, i2sBuf, i2sBufDesc, ih, intEna, outLink, inLink, txStarted>>
cfgVars  == <<bufCnt, bufLen>>
prodVars == <<pushPc, sample, currDMABuff, currDMABuffPos, todo, phase>>
clkVars  == <<clk, printed>>
pipeGhosts == <<dequeues, runsNoUr, isrSnap, merged, late, unread, discarded, woke>>
ghostVars == <<pipeGhosts, req>>
vars == <<cfgVars, initVars, lastStore, queueCreated, dmaQueue, underrunCnt, hwVars, clkVars, isrVars,
          prodVars, lastRead, ghostVars>>

Bufs == 0 .. (bufCnt - 1)
Frames == 0 .. (bufLen - 1)

\* Variant: a queue as deep as the ring.
QueueDepth_ring == bufCnt

\* The length xQueueCreate is called with.
QueueDepth == bufCnt - 1

Min(a, b) == IF a < b THEN a ELSE b
Range(s) == {s[i] : i \in 1 .. Len(s)}

\* ------------------------------------------------------------ clock solver

\* The rates the solver is run on: the standard rates and a grid over the range.
RateLo == 8000
RateHi == 96000
RateStep == 997
StandardRates == {8000, 11025, 12000, 16000, 22050, 24000, 32000, 44100, 48000,
                  64000, 88200, 96000}
Rates == StandardRates \cup
         {RateLo + k * RateStep : k \in 0 .. ((RateHi - RateLo) \div RateStep)}
\* Arguments of the i2sSetRate calls the task makes between pushes; the call
\* in i2sInit has the flag off.
TaskRates == {48000}
TaskFlags == {TRUE}

\* Variant: the difference with its sign.
ABS_signed(x) == x

ABS(x) == IF x > 0 THEN x ELSE 0 - x

\* tstfreq=BASEFREQ/(bckdiv*clkmdiv*bits*2): all operands are positive, so C's
\* truncating division is \div.
TstFreq(bckdiv, clkmdiv, bits) == BASEFREQ \div (bckdiv * clkmdiv * bits * 2)

\* Upper limit (exclusive) of the bits loop.
BitsLimit(enaWordlenFuzzing) == IF enaWordlenFuzzing THEN 20 ELSE 17

\* Variant: a triple that is as close as the best so far replaces it.
Closer_orEqual(rate, tstfreq, bestfreq) == ABS(rate - tstfreq) <= ABS(rate - bestfreq)

\* The test of the innermost loop body.
Closer(rate, tstfreq, bestfreq) == ABS(rate - tstfreq) < ABS(rate - bestfreq)

\* The innermost loop body.
SearchStep(best, rate, bckdiv, clkmdiv, bits) ==
    LET tstfreq == TstFreq(bckdiv, clkmdiv, bits)
    IN  IF Closer(rate, tstfreq, best.freq)
        THEN [freq |-> tstfreq, clkmdiv |-> clkmdiv, bckdiv |-> bckdiv, bits |-> bits]
        ELSE best

\* In the three loops the conjunct best = best is true; it makes TLC compute
\* best at every round instead of piling up one pending SearchStep per round.
RECURSIVE BitsLoop(_, _, _, _, _, _)
BitsLoop(best, rate, fuzz, bckdiv, clkmdiv, bits) ==
    IF best = best /\ bits < BitsLimit(fuzz)
    THEN BitsLoop(SearchStep(best, rate, bckdiv, clkmdiv, bits),
                  rate, fuzz, bckdiv, clkmdiv, bits + 1)
    ELSE best

RECURSIVE ClkmLoop(_, _, _, _, _)
ClkmLoop(best, rate, fuzz, bckdiv, clkmdiv) ==
    IF best = best /\ clkmdiv < 64
    THEN ClkmLoop(BitsLoop(best, rate, fuzz, bckdiv, clkmdiv, 16),
                  rate, fuzz, bckdiv, clkmdiv + 1)
    ELSE best

RECURSIVE BckLoop(_, _, _, _)
BckLoop(best, rate, fuzz, bckdiv) ==
    IF best = best /\ bckdiv < 64
    THEN BckLoop(ClkmLoop(best, rate, fuzz, bckdiv, 5), rate, fuzz, bckdiv + 1)
    ELSE best

\* The locals bestclkmdiv, bestbckdiv, bestbits, bestfreq as initialised.
BestInit == [freq |-> PLACEHOLDERFREQ, clkmdiv |-> 5, bckdiv |-> 2, bits |-> 16]

\* The three nested loops of i2sSetRate.
Search(rate, fuzz) == BckLoop(BestInit, rate, fuzz, 2)

\* The line i2sSetRate prints: the rate, the triple and the frequency
\* recomputed from the triple.
PrintLine(rate, best) ==
    [rate |-> rate, mdiv |-> best.clkmdiv, bckdiv |-> best.bckdiv, bits |-> best.bits,
     frq |-> TstFreq(best.bckdiv, best.clkmdiv, best.bits)]

\* The register fields i2sSetRate writes.
ClkRegs(best) == [bits |-> best.bits, bckdiv |-> best.bckdiv, clkmdiv |-> best.clkmdiv]

\* Results of the calls the specifications make, computed once.
DefaultBest == Search(I2S_DEFAULT_SAMPLE_RATE, FALSE)
TaskBest == [r \in TaskRates, f \in TaskFlags |-> Search(r, f)]

\* The effect of i2sSetRate(rate, enaWordlenFuzzing) when its loops end with
\* the locals `best`: the printed line and the register fields.
SetRateWith(rate, enaWordlenFuzzing, best) ==
    /\ clk' = ClkRegs(best)
    /\ printed' = PrintLine(rate, best)
    /\ req' = [rate |-> rate, enaWordlenFuzzing |-> enaWordlenFuzzing,
               bestfreq |-> best.freq]

\* ------------------------------------------------------------ initial state

\* A descriptor in zero-initialised static storage.
ZeroDesc == [owner |-> 0, eof |-> 0, sosf |-> 0, length |-> 0, size |-> 0,
             buf |-> NULL, offset |-> 0, empty |-> NULL]

\* lastStore before the first store.  The buffers' contents are only written
\* by this file, never read by it, so the model keeps the last store and not
\* the contents.
NoStore == [buf |-> NULL, idx |-> 0, val |-> 0]

\* isrSnap outside a handler run.
NoSnap == [full |-> FALSE, q |-> <<>>, cnt |-> 0]

\* req before the first i2sSetRate call.
NoReq == [rate |-> 0, enaWordlenFuzzing |-> FALSE, bestfreq |-> 0]

\* The statics of the file before i2sInit runs, the peripheral out of reset,
\* for a build with cnt buffers of len frames and a task with `frames` frames
\* to push.
Statics(cnt, len, frames) ==
    /\ bufCnt = cnt
    /\ bufLen = len
    /\ initPc = "underrunCnt"
    /\ allocY = 0
    /\ i2sBuf = [y \in 0 .. (cnt - 1) |-> NULL]
    /\ lastStore = NoStore
    /\ i2sBufDesc = [x \in 0 .. (cnt - 1) |-> ZeroDesc]
    /\ queueCreated = FALSE
    /\ dmaQueue = <<>>
    /\ underrunCnt = 0
    /\ ih = FALSE
    /\ intEna = {}
    /\ intRaw = {}
    /\ outEofDesAddr = NULL
    /\ outLink = NULL
    /\ inLink = NULL
    /\ txStarted = FALSE
    /\ hwCur = NULL
    /\ clk = [bits |-> 0, bckdiv |-> 0, clkmdiv |-> 0]
    /\ printed = [rate |-> 0, mdiv |-> 0, bckdiv |-> 0, bits |-> 0, frq |-> 0]
    /\ isrPc = "idle"
    /\ slc_intr_status = {}
    /\ finishedDesc = NULL
    /\ HPTaskAwoken = FALSE
    /\ yielded = FALSE
    /\ pushPc = "idle"
    /\ sample = 0
    /\ currDMABuff = NULL
    /\ currDMABuffPos = 0
    /\ todo = frames
    /\ phase = 0
    /\ lastRead = NoValue
    /\ dequeues = 0
    /\ runsNoUr = 0
    /\ isrSnap = NoSnap
    /\ merged = FALSE
    /\ late = FALSE
    /\ unread = FALSE
    /\ discarded = FALSE
    /\ woke = FALSE

PowerOn(cnt, len, frames) == Statics(cnt, len, frames) /\ req = NoReq

Init == PowerOn(I2SDMABUFCNT, I2SDMABUFLEN, Endless)

\* ------------------------------------------------------------------ i2sInit

\* underrunCnt=0;
i2sInit_underrunCnt ==
    /\ initPc = "underrunCnt"
    /\ underrunCnt' = 0
    /\ initPc' = "alloc"
    /\ UNCHANGED <<cfgVars, allocY, i2sBuf, i2sBufDesc, ih, intEna, outLink, inLink,
                   txStarted, lastStore, queueCreated, dmaQueue, hwVars, clkVars, isrVars,
                   prodVars, lastRead, ghostVars>>

\* One round of the allocation loop: calloc, then the clearing loop.  calloc
\* may return NULL, and the result is not tested: the stores of the clearing
\* loop then go through a null pointer.  As compiled, the first of them goes
\* to address 0, which the target answers with a fatal exception ("trap"); a
\* compiler that knows calloc's memory to be zero may drop the stores, and the
\* function then goes on with i2sBuf[y] = NULL ("elided").
AllocRound(outcomes) ==
    /\ initPc = "alloc"
    /\ \E o \in outcomes :
          IF o = "ok"
          THEN /\ i2sBuf' = [i2sBuf EXCEPT ![allocY] = allocY]
               /\ allocY' = allocY + 1
               /\ initPc' = IF allocY + 1 < bufCnt THEN "alloc" ELSE "intr"
          ELSE IF o = "trap"
          THEN /\ i2sBuf' = [i2sBuf EXCEPT ![allocY] = NULL]
               /\ initPc' = "fault"
               /\ UNCHANGED allocY
          ELSE /\ i2sBuf' = [i2sBuf EXCEPT ![allocY] = NULL]
               /\ allocY' = allocY + 1
               /\ initPc' = IF allocY + 1 < bufCnt THEN "alloc" ELSE "intr"
    /\ UNCHANGED <<cfgVars, i2sBufDesc, ih, intEna, outLink, inLink, txStarted,
                   lastStore, queueCreated, dmaQueue, underrunCnt, hwVars, clkVars, isrVars,
                   prodVars, lastRead, ghostVars>>

\* The allocation round of a build whose null-pointer store traps.
i2sInit_alloc == AllocRound({"ok", "trap"})

\* The allocation round of any build.
i2sInit_allocAny == AllocRound({"ok", "trap", "elided"})

\* esp_intr_alloc, the OUT_EOF enable bit, esp_intr_enable.
i2sInit_intr ==
    /\ initPc = "intr"
    /\ ih' = TRUE
    /\ intEna' = intEna \cup {"OUT_EOF"}
    /\ initPc' = "desc"
    /\ UNCHANGED <<cfgVars, allocY, i2sBuf, i2sBufDesc, outLink, inLink, txStarted,
                   lastStore, queueCreated, dmaQueue, underrunCnt, hwVars, clkVars, isrVars,
                   prodVars, lastRead, ghostVars>>

\* Variant: the last descriptor is its own successor.
RingDesc_open(x) ==
    [owner |-> 1, eof |-> 1, sosf |-> 0, length |-> bufLen * 4, size |-> bufLen * 4,
     buf |-> i2sBuf[x], offset |-> 0,
     empty |-> IF x < bufCnt - 1 THEN x + 1 ELSE x]

\* The descriptor the loop writes at index x.
RingDesc(x) ==
    [owner |-> 1, eof |-> 1, sosf |-> 0, length |-> bufLen * 4, size |-> bufLen * 4,
     buf |-> i2sBuf[x], offset |-> 0,
     empty |-> IF x < bufCnt - 1 THEN x + 1 ELSE 0]

\* The loop that builds the descriptor ring.
i2sInit_desc ==
    /\ initPc = "desc"
    /\ i2sBufDesc' = [x \in Bufs |-> RingDesc(x)]
    /\ initPc' = "link"
    /\ UNCHANGED <<cfgVars, allocY, i2sBuf, ih, intEna, outLink, inLink, txStarted,
                   lastStore, queueCreated, dmaQueue, underrunCnt, hwVars, clkVars, isrVars,
                   prodVars, lastRead, ghostVars>>

\* Descriptor 0 to the out link, descriptor 1 to the in link.
i2sInit_link ==
    /\ initPc = "link"
    /\ outLink' = 0
    /\ inLink' = 1
    /\ initPc' = "queue"
    /\ UNCHANGED <<cfgVars, allocY, i2sBuf, i2sBufDesc, ih, intEna, txStarted,
                   lastStore, queueCreated, dmaQueue, underrunCnt, hwVars, clkVars, isrVars,
                   prodVars, lastRead, ghostVars>>

\* dmaQueue=xQueueCreate(I2SDMABUFCNT-1, sizeof(int*));
i2sInit_queue ==
    /\ initPc = "queue"
    /\ queueCreated' = TRUE
    /\ dmaQueue' = <<>>
    /\ initPc' = "rate"
    /\ UNCHANGED <<cfgVars, allocY, i2sBuf, i2sBufDesc, ih, intEna, outLink, inLink,
                   txStarted, lastStore, underrunCnt, hwVars, clkVars, isrVars,
                   prodVars, lastRead, ghostVars>>

\* i2sSetRate(I2S_DEFAULT_SAMPLE_RATE, 0);
i2sInit_rate ==
    /\ initPc = "rate"
    /\ SetRateWith(I2S_DEFAULT_SAMPLE_RATE, FALSE, DefaultBest)
    /\ initPc' = "intclr"
    /\ UNCHANGED <<cfgVars, allocY, i2sBuf, i2sBufDesc, ih, intEna, outLink, inLink,
                   txStarted, lastStore, queueCreated, dmaQueue, underrunCnt, hwVars, isrVars,
                   prodVars, lastRead, pipeGhosts>>

\* WRITE_PERI_REG(I2S_INT_CLR_REG(0), 0xFFFFFFFF);
i2sInit_intclr ==
    /\ initPc = "intclr"
    /\ intRaw' = {}
    /\ initPc' = "start"
    /\ UNCHANGED <<cfgVars, allocY, i2sBuf, i2sBufDesc, ih, intEna, outLink, inLink,
                   txStarted, lastStore, queueCreated, dmaQueue, underrunCnt, outEofDesAddr,
                   hwCur, clkVars, isrVars, prodVars, lastRead, ghostVars>>

\* I2S_OUTLINK_START and I2S_TX_START: the hardware starts at the out link.
i2sInit_start ==
    /\ initPc = "start"
    /\ txStarted' = TRUE
    /\ hwCur' = outLink
    /\ initPc' = "done"
    /\ UNCHANGED <<cfgVars, allocY, i2sBuf, i2sBufDesc, ih, intEna, outLink, inLink,
                   lastStore, queueCreated, dmaQueue, underrunCnt, intRaw, outEofDesAddr,
                   clkVars, isrVars, prodVars, lastRead, ghostVars>>

i2sInit ==
    \/ i2sInit_underrunCnt
    \/ i2sInit_alloc
    \/ i2sInit_intr
    \/ i2sInit_desc
    \/ i2sInit_link
    \/ i2sInit_queue
    \/ i2sInit_rate
    \/ i2sInit_intclr
    \/ i2sInit_start

\* ----------------------------------------------------------------- hardware

\* Masked status, I2S_INT_ST_REG: the raw bits that are enabled.
IntSt == intRaw \cap intEna

\* A completion whose token the handler has not picked up yet: its status bit
\* is pending, or the handler has read the status and not yet the address of
\* the finished descriptor.
Unserviced == "OUT_EOF" \in intRaw \/ isrPc \in {"clear", "desc"}

\* The DMA engine finishes the descriptor it is transmitting (eof=1): it raises
\* the raw status bits, latches the descriptor's address and goes on to the
\* descriptor's successor.  Not part of the file: the peripheral as the file
\* uses it.  The guard on underrunCnt keeps the counter, and so the state
\* space, finite.
HwComplete ==
    /\ txStarted
    /\ underrunCnt < MaxUnderrun
    /\ intRaw' = intRaw \cup {"OUT_EOF", "OUT_DONE"}
    /\ outEofDesAddr' = hwCur
    /\ hwCur' = i2sBufDesc[hwCur].empty
    /\ merged' = (merged \/ Unserviced)
    /\ late' = (late \/ "OUT_EOF" \in intRaw \/ isrPc # "idle")
    /\ unread' = (isrPc = "clear")
    /\ UNCHANGED <<cfgVars, initVars, lastStore, queueCreated, dmaQueue, underrunCnt,
                   clkVars, isrVars, prodVars, lastRead, dequeues, runsNoUr, isrSnap,
                   discarded, woke, req>>

\* ------------------------------------------------------------------ i2s_isr

\* The interrupt line of the handler: allocated, enabled, a masked bit set.
IntrAsserted == ih /\ IntSt # {}

\* Entry, and slc_intr_status = READ_PERI_REG(I2S_INT_ST_REG(0)) with its test.
\* With a zero status the handler returns at once and its locals are gone.
isr_enter ==
    /\ isrPc = "idle"
    /\ HPTaskAwoken' = FALSE
    /\ slc_intr_status' = IntSt
    /\ isrPc' = IF IntSt = {} THEN "idle" ELSE "clear"
    /\ UNCHANGED <<cfgVars, initVars, lastStore, queueCreated, dmaQueue, underrunCnt,
                   hwVars, clkVars, finishedDesc, yielded, prodVars, lastRead,
                   ghostVars>>

\* The handler is entered because its interrupt line is asserted.
isr_read == IntrAsserted /\ isr_enter

\* The handler is called, whatever the status.
isr_call == isr_enter

\* Variant: the handler clears the bit it acts on, and no other.
isr_clear_onlyEof ==
    /\ isrPc = "clear"
    /\ intRaw' = intRaw \ {"OUT_EOF"}
    /\ isrPc' = IF "OUT_EOF" \in slc_intr_status THEN "desc" ELSE "exit"
    /\ unread' = FALSE
    /\ UNCHANGED <<cfgVars, initVars, lastStore, queueCreated, dmaQueue, underrunCnt,
                   outEofDesAddr, hwCur, clkVars, slc_intr_status, finishedDesc,
                   HPTaskAwoken, yielded, prodVars, lastRead, dequeues, runsNoUr,
                   isrSnap, merged, late, discarded, woke, req>>

\* WRITE_PERI_REG(I2S_INT_CLR_REG(0), 0xffffffff), then the test of the
\* I2S_OUT_EOF_INT_ST bit in the local.
isr_clear ==
    /\ isrPc = "clear"
    /\ intRaw' = {}
    /\ isrPc' = IF "OUT_EOF" \in slc_intr_status THEN "desc" ELSE "exit"
    /\ unread' = FALSE
    /\ UNCHANGED <<cfgVars, initVars, lastStore, queueCreated, dmaQueue, underrunCnt,
                   outEofDesAddr, hwCur, clkVars, slc_intr_status, finishedDesc,
                   HPTaskAwoken, yielded, prodVars, lastRead, dequeues, runsNoUr,
                   isrSnap, merged, late, discarded, woke, req>>

\* finishedDesc=(lldesc_t*)READ_PERI_REG(I2S_OUT_EOF_DES_ADDR_REG(0));
isr_desc ==
    /\ isrPc = "desc"
    /\ finishedDesc' = outEofDesAddr
    /\ isrPc' = "full"
    /\ UNCHANGED <<cfgVars, initVars, lastStore, queueCreated, dmaQueue, underrunCnt,
                   hwVars, clkVars, slc_intr_status, HPTaskAwoken, yielded,
                   prodVars, lastRead, ghostVars>>

\* Variant: the queue never counts as full.
IsQueueFull_never(q) == FALSE

\* Variant: a queue one short of full counts as full.
IsQueueFull_early(q) == Len(q) >= QueueDepth - 1

\* xQueueIsQueueFullFromISR
IsQueueFull(q) == Len(q) = QueueDepth

\* if (xQueueIsQueueFullFromISR(dmaQueue)) { underrunCnt++; ...
isr_full ==
    /\ isrPc = "full"
    /\ IF IsQueueFull(dmaQueue)
       THEN /\ underrunCnt' = underrunCnt + 1
            /\ runsNoUr' = 0
            /\ isrSnap' = [full |-> TRUE, q |-> dmaQueue, cnt |-> underrunCnt]
            /\ isrPc' = "recv"
       ELSE /\ isrPc' = "send"
            /\ runsNoUr' = Min(runsNoUr + 1, bufCnt)
            /\ UNCHANGED <<underrunCnt, isrSnap>>
    /\ UNCHANGED <<cfgVars, initVars, lastStore, queueCreated, dmaQueue, hwVars, clkVars,
                   slc_intr_status, finishedDesc, HPTaskAwoken, yielded, prodVars,
                   lastRead, dequeues, merged, late, unread, discarded, woke, req>>

\* Variant: the newest token is removed.
QueueReceiveFromISR_newest(q) == IF q # <<>> THEN SubSeq(q, 1, Len(q) - 1) ELSE q

\* xQueueReceiveFromISR: removes the oldest token when there is one, fails
\* otherwise.  No task waits to send, so HPTaskAwoken stays as it is.
QueueReceiveFromISR(q) == IF q # <<>> THEN Tail(q) ELSE q

\* xQueueReceiveFromISR(dmaQueue, &dummy, &HPTaskAwoken);
isr_recv ==
    /\ isrPc = "recv"
    /\ dmaQueue' = QueueReceiveFromISR(dmaQueue)
    /\ isrPc' = "send"
    /\ discarded' = (discarded \/ dmaQueue' # dmaQueue)
    /\ UNCHANGED <<cfgVars, initVars, lastStore, queueCreated, underrunCnt, hwVars,
                   clkVars, slc_intr_status, finishedDesc, HPTaskAwoken, yielded,
                   prodVars, lastRead, dequeues, runsNoUr, isrSnap, merged, late,
                   unread, woke, req>>

\* Variant: the send always fails.
QueueSendFromISR_fails(q, token) == q

\* Variant: the token is put at the front of the queue.
QueueSendFromISR_front(q, token) ==
    IF Len(q) < QueueDepth THEN <<token>> \o q ELSE q

\* xQueueSendFromISR: appends the token when there is room, fails otherwise.
QueueSendFromISR(q, token) == IF Len(q) < QueueDepth THEN Append(q, token) ELSE q

\* xQueueSendFromISR(dmaQueue, (void*)(&finishedDesc->buf), &HPTaskAwoken): the
\* item copied is the buf field.  A task blocked in xQueueReceive is made
\* ready.  The call sets HPTaskAwoken to pdTRUE when the task it made ready
\* has a priority above that of the interrupted task; the priorities are set
\* by the callers of this driver, so both outcomes are possible.
isr_send ==
    /\ isrPc = "send"
    /\ dmaQueue' = QueueSendFromISR(dmaQueue, i2sBufDesc[finishedDesc].buf)
    /\ IF dmaQueue' # dmaQueue /\ pushPc = "blocked"
       THEN /\ pushPc' = "recv"
            /\ woke' = TRUE
            /\ HPTaskAwoken' \in BOOLEAN
       ELSE UNCHANGED <<pushPc, woke, HPTaskAwoken>>
    /\ isrPc' = "exit"
    /\ UNCHANGED <<cfgVars, initVars, lastStore, queueCreated, underrunCnt, hwVars,
                   clkVars, slc_intr_status, finishedDesc, yielded, sample,
                   currDMABuff, currDMABuffPos, todo, phase, lastRead, dequeues,
                   runsNoUr, isrSnap, merged, late, unread, discarded, req>>

\* Variant: a handler that returns without ever requesting a reschedule.
isr_exit_noYield ==
    /\ isrPc = "exit"
    /\ yielded' = FALSE
    /\ isrPc' = "idle"
    /\ slc_intr_status' = {}
    /\ finishedDesc' = NULL
    /\ HPTaskAwoken' = FALSE
    /\ isrSnap' = NoSnap
    /\ woke' = FALSE
    /\ UNCHANGED <<cfgVars, initVars, lastStore, queueCreated, dmaQueue, underrunCnt,
                   hwVars, clkVars, prodVars, lastRead, dequeues, runsNoUr, merged,
                   late, unread, discarded, req>>

\* if(HPTaskAwoken == pdTRUE) portYIELD_FROM_ISR(); and the return, which
\* ends the life of the locals.
isr_exit ==
    /\ isrPc = "exit"
    /\ yielded' = HPTaskAwoken
    /\ isrPc' = "idle"
    /\ slc_intr_status' = {}
    /\ finishedDesc' = NULL
    /\ HPTaskAwoken' = FALSE
    /\ isrSnap' = NoSnap
    /\ woke' = FALSE
    /\ UNCHANGED <<cfgVars, initVars, lastStore, queueCreated, dmaQueue, underrunCnt,
                   hwVars, clkVars, prodVars, lastRead, dequeues, runsNoUr, merged,
                   late, unread, discarded, req>>

i2s_isr ==
    \/ isr_read
    \/ isr_clear
    \/ isr_desc
    \/ isr_full
    \/ isr_recv
    \/ isr_send
    \/ isr_exit

\* ------------------------------------------------------------ i2sPushSample

\* Variant: a new buffer is taken only when none is held.
NeedBuffer_nullOnly(pos, buff) == buff = NULL

\* Variant: a new buffer is taken only when the held one is full.
NeedBuffer_fullOnly(pos, buff) == pos = bufLen

\* Variant: a new buffer is taken one frame early.
NeedBuffer_early(pos, buff) == pos = bufLen - 1 \/ buff = NULL

\* The test that decides whether a new buffer is needed.
NeedBuffer(pos, buff) == pos = bufLen \/ buff = NULL

\* The task calls i2sPushSample(sample) with its next frame; the test of the
\* first line.
push_call ==
    /\ initPc = "done"
    /\ pushPc = "idle"
    /\ todo # 0
    /\ sample' = phase + 1
    /\ phase' = (phase + 1) % SamplePeriod
    /\ todo' = IF todo = Endless THEN Endless ELSE todo - 1
    /\ pushPc' = IF NeedBuffer(currDMABuffPos, currDMABuff) THEN "recv" ELSE "store"
    /\ lastRead' = NoValue
    /\ UNCHANGED <<cfgVars, initVars, lastStore, queueCreated, dmaQueue, underrunCnt,
                   hwVars, clkVars, isrVars, currDMABuff, currDMABuffPos, ghostVars>>

\* xQueueReceive(dmaQueue, &currDMABuff, portMAX_DELAY); currDMABuffPos=0;
\* With the queue empty the task blocks until the handler's send readies it.
push_recv ==
    /\ pushPc = "recv"
    /\ IF dmaQueue # <<>>
       THEN /\ currDMABuff' = Head(dmaQueue)
            /\ dmaQueue' = Tail(dmaQueue)
            /\ currDMABuffPos' = 0
            /\ pushPc' = "store"
            /\ dequeues' = IF todo = Endless THEN dequeues ELSE dequeues + 1
            /\ runsNoUr' = 0
            /\ isrSnap' = NoSnap
            /\ discarded' = FALSE
       ELSE /\ pushPc' = "blocked"
            /\ UNCHANGED <<currDMABuff, dmaQueue, currDMABuffPos, dequeues, runsNoUr,
                           isrSnap, discarded>>
    /\ UNCHANGED <<cfgVars, initVars, lastStore, queueCreated, underrunCnt, hwVars,
                   clkVars, isrVars, sample, todo, phase, lastRead, merged, late,
                   unread, woke, req>>

\* The store is inside an allocated buffer.
StoreInBounds(buff, pos) == buff \in Bufs /\ pos \in Frames

\* currDMABuff[currDMABuffPos++]=sample; and the return, which ends the life
\* of the argument.
push_store ==
    /\ pushPc = "store"
    /\ IF StoreInBounds(currDMABuff, currDMABuffPos)
       THEN /\ lastStore' = [buf |-> currDMABuff, idx |-> currDMABuffPos,
                              val |-> sample]
            /\ currDMABuffPos' = currDMABuffPos + 1
            /\ pushPc' = "idle"
            /\ sample' = 0
       ELSE /\ pushPc' = "fault"
            /\ UNCHANGED <<lastStore, currDMABuffPos, sample>>
    /\ UNCHANGED <<cfgVars, initVars, queueCreated, dmaQueue, underrunCnt, hwVars,
                   clkVars, isrVars, currDMABuff, todo, phase, lastRead,
                   ghostVars>>

i2sPushSample ==
    \/ push_call
    \/ push_recv
    \/ push_store

\* ------------------------------------------- i2sGetUnderrunCnt, i2sSetRate

\* The task reads the counter between two pushes.
i2sGetUnderrunCnt ==
    /\ initPc = "done"
    /\ pushPc = "idle"
    /\ lastRead' = underrunCnt
    /\ UNCHANGED <<cfgVars, initVars, lastStore, queueCreated, dmaQueue, underrunCnt,
                   hwVars, clkVars, isrVars, prodVars, ghostVars>>

\* The task calls i2sSetRate between two pushes, with a rate of `rates` and a
\* flag of `flags`; `table` holds the result of the loops for each pair of
\* arguments.
SetRateOf(rates, flags, table) ==
    /\ initPc = "done"
    /\ pushPc = "idle"
    /\ \E rate \in rates, enaWordlenFuzzing \in flags :
          SetRateWith(rate, enaWordlenFuzzing, table[rate, enaWordlenFuzzing])
    /\ UNCHANGED <<cfgVars, initVars, lastStore, queueCreated, dmaQueue, underrunCnt,
                   hwVars, isrVars, prodVars, lastRead, pipeGhosts>>

i2sSetRate == SetRateOf(TaskRates, TaskFlags, TaskBest)

\* i2sSetRate(req.rate, req.enaWordlenFuzzing), entered with its locals
\* initialised: the loops, the printed line and the register writes.
i2sSetRate_call ==
    /\ req.rate # 0
    /\ req.bestfreq = PLACEHOLDERFREQ
    /\ SetRateWith(req.rate, req.enaWordlenFuzzing,
                   Search(req.rate, req.enaWordlenFuzzing))
    /\ UNCHANGED <<cfgVars, initVars, lastStore, queueCreated, dmaQueue, underrunCnt,
                   hwVars, isrVars, prodVars, lastRead, pipeGhosts>>

\* ------------------------------------------------------------ specification

\* The pipeline: the task initialises and pushes frames, the hardware walks
\* the ring, the handler services it.
Next ==
    \/ i2sInit
    \/ HwComplete
    \/ i2s_isr
    \/ i2sPushSample

Spec == Init /\ [][Next]_vars

\* The pipeline with a task that also reads the counter and changes the rate
\* between its pushes.
NextApi ==
    \/ Next
    \/ i2sGetUnderrunCnt
    \/ i2sSetRate

SpecApi == Init /\ [][NextApi]_vars

\* The pipeline with a handler that runs whenever its interrupt is asserted and
\* a task that runs whenever it is ready.  Nothing is assumed of the hardware:
\* it may stop completing buffers at any time.
SpecLive ==
    /\ Init
    /\ [][Next]_vars
    /\ WF_vars(i2s_isr)
    /\ WF_vars(i2sInit)
    /\ WF_vars(i2sPushSample)

\* The pipeline for any build: a failed allocation may trap or go unnoticed.
NextAlloc ==
    \/ i2sInit_underrunCnt
    \/ i2sInit_allocAny
    \/ i2sInit_intr
    \/ i2sInit_desc
    \/ i2sInit_link
    \/ i2sInit_queue
    \/ i2sInit_rate
    \/ i2sInit_intclr
    \/ i2sInit_start
    \/ HwComplete
    \/ i2s_isr
    \/ i2sPushSample

SpecAlloc == Init /\ [][NextAlloc]_vars

\* The handler alone.  It starts after i2sInit with any raw status, any
\* further enable bits (i2sInit sets the OUT_EOF enable bit and leaves the
\* others as it found them), any finished descriptor, any queue, and the task
\* idle or blocked in xQueueReceive on an empty queue; the handler is called
\* and runs, and nothing else moves.
StatusBits == {"OUT_EOF", "OUT_DONE"}

RECURSIVE Tokens(_)
Tokens(n) ==
    IF n = 0 THEN {<<>>}
    ELSE Tokens(n - 1) \cup
         {Append(q, b) : q \in {t \in Tokens(n - 1) : Len(t) = n - 1},
                         b \in 0 .. (I2SDMABUFCNT - 1)}

InitIsr ==
    /\ bufCnt = I2SDMABUFCNT
    /\ bufLen = I2SDMABUFLEN
    /\ initPc = "done"
    /\ allocY = I2SDMABUFCNT
    /\ i2sBuf = [y \in 0 .. (I2SDMABUFCNT - 1) |-> y]
    /\ lastStore = NoStore
    /\ i2sBufDesc = [x \in 0 .. (I2SDMABUFCNT - 1) |-> RingDesc(x)]
    /\ queueCreated = TRUE
    /\ dmaQueue \in Tokens(I2SDMABUFCNT - 1)
    /\ underrunCnt = 0
    /\ ih = TRUE
    /\ intEna \in {e \in SUBSET StatusBits : "OUT_EOF" \in e}
    /\ intRaw \in SUBSET StatusBits
    /\ outEofDesAddr \in 0 .. (I2SDMABUFCNT - 1)
    /\ outLink = 0
    /\ inLink = 1
    /\ txStarted = TRUE
    /\ hwCur = i2sBufDesc[outEofDesAddr].empty
    /\ clk = ClkRegs(DefaultBest)
    /\ printed = PrintLine(I2S_DEFAULT_SAMPLE_RATE, DefaultBest)
    /\ isrPc = "idle"
    /\ slc_intr_status = {}
    /\ finishedDesc = NULL
    /\ HPTaskAwoken = FALSE
    /\ yielded = FALSE
    /\ pushPc \in (IF dmaQueue = <<>> THEN {"idle", "blocked"} ELSE {"idle"})
    /\ sample = IF pushPc = "blocked" THEN 1 ELSE 0
    /\ currDMABuff = NULL
    /\ currDMABuffPos = 0
    /\ todo = Endless
    /\ phase = IF pushPc = "blocked" THEN 1 % SamplePeriod ELSE 0
    /\ lastRead = NoValue
    /\ dequeues = 0
    /\ runsNoUr = 0
    /\ isrSnap = NoSnap
    /\ merged = FALSE
    /\ late = FALSE
    /\ unread = FALSE
    /\ discarded = FALSE
    /\ woke = FALSE
    /\ req = [rate |-> I2S_DEFAULT_SAMPLE_RATE, enaWordlenFuzzing |-> FALSE,
              bestfreq |-> DefaultBest.freq]

NextIsr ==
    \/ isr_call
    \/ isr_clear
    \/ isr_desc
    \/ isr_full
    \/ isr_recv
    \/ isr_send
    \/ isr_exit

SpecIsr == InitIsr /\ [][NextIsr]_vars

\* The hardware of the end-to-end scenario: it completes a buffer only when
\* the handler has returned from the previous completion and the queue has
\* room for the token, so that no token is dropped.
HwCompleteInTime ==
    /\ isrPc = "idle"
    /\ "OUT_EOF" \notin intRaw
    /\ Len(dmaQueue) < QueueDepth
    /\ HwComplete

\* The end-to-end scenario: E2E_BUFCNT buffers of E2E_BUFLEN frames and a task
\* that pushes E2E_FRAMES frames and stops.  The handler never finds the queue
\* full, so its receive is no step of this specification.
InitE2E == PowerOn(E2E_BUFCNT, E2E_BUFLEN, E2E_FRAMES)

NextE2E ==
    \/ i2sInit
    \/ HwCompleteInTime
    \/ isr_read
    \/ isr_clear
    \/ isr_desc
    \/ isr_full
    \/ isr_send
    \/ isr_exit
    \/ i2sPushSample

SpecE2E == InitE2E /\ [][NextE2E]_vars

\* The clock solver alone: a call of i2sSetRate with any rate of Rates and
\* either value of the flag.
InitRate ==
    /\ Statics(I2SDMABUFCNT, I2SDMABUFLEN, 0)
    /\ \E rate \in Rates, enaWordlenFuzzing \in BOOLEAN :
          req = [rate |-> rate, enaWordlenFuzzing |-> enaWordlenFuzzing,
                 bestfreq |-> PLACEHOLDERFREQ]

NextRate == i2sSetRate_call

SpecRate == InitRate /\ [][NextRate]_vars

\* ------------------------------------------------------------------- claims

\* i2sInit has returned.
InitDone == initPc = "done"

\* The buffer of the descriptor the hardware is transmitting.
HwBuf == i2sBufDesc[hwCur].buf

\* The handler is not running and no completion waits for it.
Serviced == isrPc = "idle" /\ "OUT_EOF" \notin intRaw

\* The three places a buffer identifier can be in.  The hardware's share is
\* every buffer handed neither to the queue nor to the task, and the buffer it
\* is transmitting.
Queued == Range(dmaQueue)
Held == IF currDMABuff = NULL THEN {} ELSE {currDMABuff}
InFlight == (Bufs \ (Queued \cup Held)) \cup {HwBuf}

\* C1: after initialization every buffer identifier is in exactly one of
\* {in flight, queued, held by the task} and the three sizes sum to the number
\* of buffers.  Stated for the states that are kindest to the claim: the
\* handler has returned from servicing each completion before the next one
\* arrived, and no completion is waiting to be serviced.
C1_BufferOwnership ==
    (InitDone /\ ~late /\ Serviced) =>
        /\ \A b \in Bufs :
              Cardinality({k \in {"inflight", "queued", "held"} :
                             \/ k = "inflight" /\ b \in InFlight
                             \/ k = "queued" /\ b \in Queued
                             \/ k = "held" /\ b \in Held}) = 1
        /\ Cardinality(InFlight) + Len(dmaQueue) + Cardinality(Held) = bufCnt

\* C2: whenever i2sPushSample stores a frame, the buffer it stores into is not
\* the one the hardware is transmitting.  Stated, like C1, for the stores made
\* when every completion so far has been serviced in time.
C2_NoStoreIntoTransmittedBuffer ==
    [][(pushPc = "store" /\ pushPc' = "idle" /\ ~late /\ Serviced) =>
          currDMABuff # HwBuf]_vars

\* C3: a handler run that found the queue holding bufCnt-1 tokens, with no
\* dequeue by the task during the run, ends with the counter one higher, the
\* oldest token gone, the finished buffer's token newest, the other tokens in
\* their order and the queue holding bufCnt-1 tokens again.
C3_UnderrunHandling ==
    (isrPc = "exit" /\ isrSnap.full /\ Len(isrSnap.q) = bufCnt - 1) =>
        /\ underrunCnt = isrSnap.cnt + 1
        /\ dmaQueue = Append(Tail(isrSnap.q), i2sBufDesc[finishedDesc].buf)
        /\ Len(dmaQueue) = bufCnt - 1

\* A handler run has handled an underrun with two or more tokens queued and is
\* about to return.
C3_Witness ==
    /\ isrPc = "exit"
    /\ isrSnap.full
    /\ Len(isrSnap.q) = bufCnt - 1
    /\ bufCnt - 1 >= 2
    /\ underrunCnt = isrSnap.cnt + 1

\* C4: the counter is 0 when i2sInit returns; afterwards a step changes it only
\* if it is the handler's test of the queue finding bufCnt-1 tokens, and then
\* by exactly 1.
C4_UnderrunCntMonotonic ==
    [][/\ (initPc # "done" /\ initPc' = "done") => underrunCnt' = 0
       /\ (InitDone /\ underrunCnt' # underrunCnt) =>
             /\ isrPc = "full"
             /\ isrPc' = "recv"
             /\ Len(dmaQueue) = bufCnt - 1
             /\ underrunCnt' = underrunCnt + 1]_vars

\* The counter has been incremented, and the task has read it, pushed a frame
\* and changed the rate since.
C4_Witness ==
    /\ underrunCnt = MaxUnderrun
    /\ lastRead = MaxUnderrun
    /\ printed.rate # I2S_DEFAULT_SAMPLE_RATE
    /\ currDMABuffPos > 0

\* Every descriptor is as the ring-building loop of i2sInit leaves it.
RingBuilt == \A x \in Bufs : i2sBufDesc[x] = RingDesc(x)

\* All buffers are allocated.
PoolBuilt == \A y \in Bufs : i2sBuf[y] # NULL

\* C7: whenever the interrupt handler is registered and enabled, the queue has
\* been created and the buffers and the descriptor ring have been built; and
\* whenever transmission has been started the handler is enabled.
C7_InitOrdering ==
    /\ ih => (queueCreated /\ PoolBuilt /\ RingBuilt)
    /\ txStarted => ih

\* C8: the handler never finds the queue not full bufCnt times in a row with no
\* dequeue by the task in between: among any bufCnt handler runs in a row
\* without a dequeue, one at least counts an underrun.
C8_UnderrunWithinRing == runsNoUr <= bufCnt - 1

\* The task has never dequeued, the handler has found the queue not full
\* bufCnt-1 times in a row, and the next run is counting an underrun.
C8_Witness ==
    /\ currDMABuff = NULL
    /\ pushPc = "idle"
    /\ isrPc = "recv"
    /\ isrSnap.full
    /\ Len(isrSnap.q) = bufCnt - 1
    /\ underrunCnt = 1
    /\ ~merged

\* ---- clock solver claims

\* The search space the claims name, and the error of a triple, written out
\* without the solver's own operators.
OracleBits(enaWordlenFuzzing) == IF enaWordlenFuzzing THEN 16 .. 19 ELSE {16}
OracleSpace(enaWordlenFuzzing) ==
    {t \in (2 .. 63) \X (5 .. 63) \X (16 .. 19) : t[3] \in OracleBits(enaWordlenFuzzing)}
OracleErr(rate, t) ==
    LET f == BASEFREQ \div (t[1] * t[2] * t[3] * 2)
    IN  IF rate >= f THEN rate - f ELSE f - rate

\* The triple i2sSetRate wrote to the registers: <<bck, main, bits>>.
Chosen == <<clk.bckdiv, clk.clkmdiv, clk.bits>>

\* An i2sSetRate call with a rate in the range has returned: it has written
\* the registers.
RateDone == clk.bits # 0 /\ req.rate >= RateLo /\ req.rate <= RateHi

\* t comes before u in the enumeration order of the loops.
Earlier(t, u) ==
    \/ t[1] < u[1]
    \/ t[1] = u[1] /\ t[2] < u[2]
    \/ t[1] = u[1] /\ t[2] = u[2] /\ t[3] < u[3]

\* C9: for every rate of the range and both values of the flag the triple
\* i2sSetRate chooses lies in the search space (bits = 16 with the flag off),
\* its error is the least over the whole space, the printed frequency is the
\* one the triple achieves, and the call never ends with the placeholder
\* frequency as its best.
C9_ClockSolverOptimal ==
    RateDone =>
        /\ req.bestfreq # PLACEHOLDERFREQ
        /\ Chosen \in OracleSpace(req.enaWordlenFuzzing)
        /\ \A t \in OracleSpace(req.enaWordlenFuzzing) :
              OracleErr(req.rate, Chosen) <= OracleErr(req.rate, t)
        /\ printed.rate = req.rate
        /\ printed.frq = BASEFREQ \div (clk.bckdiv * clk.clkmdiv * clk.bits * 2)
        /\ req.bestfreq = printed.frq

\* A call with the flag on has chosen more than 16 bits, and the first triple
\* of the enumeration is not among the best.
C9_Witness ==
    /\ RateDone
    /\ req.enaWordlenFuzzing
    /\ clk.bits > 16
    /\ OracleErr(req.rate, Chosen) < OracleErr(req.rate, <<2, 5, 16>>)

\* C10: no triple of the search space that comes before the chosen one in the
\* enumeration order has the chosen one's error: of the triples with the least
\* error the first is chosen.
C10_TieBreakFirst ==
    RateDone =>
        \A t \in OracleSpace(req.enaWordlenFuzzing) :
            OracleErr(req.rate, t) = OracleErr(req.rate, Chosen) => ~Earlier(t, Chosen)

\* A call has returned for which a later triple has the same, least, error as
\* the chosen one.
C10_Witness ==
    /\ RateDone
    /\ \E t \in OracleSpace(req.enaWordlenFuzzing) :
          /\ Earlier(Chosen, t)
          /\ OracleErr(req.rate, t) = OracleErr(req.rate, Chosen)

\* ---- backpressure and the end-to-end scenario

\* The value of the frame the task pushed last.
LastFrame == IF phase = 0 THEN SamplePeriod ELSE phase

\* i2sPushSample has returned from a call that took a new buffer: the frame is
\* at index 0 of the current buffer and the offset is 1.
ReturnedWithNewBuffer ==
    /\ pushPc = "idle"
    /\ currDMABuffPos = 1
    /\ lastStore = [buf |-> currDMABuff, idx |-> 0, val |-> LastFrame]

\* C5: (1) if i2sInit returns and the hardware stops completing buffers while
\* the task goes on pushing, the task reaches a push that blocks; (2) a push blocks only when it
\* needs a buffer and the queue is empty; (3) if the hardware keeps completing
\* buffers, every blocked push returns; (4) the dequeue of a push takes the
\* oldest token of the queue, and (5) the push then returns with that token as
\* the current buffer, the frame at its index 0 and the offset 1.
C5_Backpressure ==
    /\ (<>InitDone /\ <>[][~HwComplete]_vars) => <>(pushPc = "blocked")
    /\ [][(pushPc # "blocked" /\ pushPc' = "blocked") =>
             (NeedBuffer(currDMABuffPos, currDMABuff) /\ dmaQueue = <<>>)]_vars
    /\ ([]<><<HwComplete>>_vars) => ((pushPc = "blocked") ~> ReturnedWithNewBuffer)
    /\ [][(pushPc = "recv" /\ pushPc' = "store") =>
             (currDMABuff' = Head(dmaQueue) /\ dmaQueue' = Tail(dmaQueue))]_vars
    /\ [][(pushPc = "store" /\ pushPc' # "store" /\ currDMABuffPos = 0) =>
             (ReturnedWithNewBuffer' /\ currDMABuff' = currDMABuff)]_vars

\* A push that blocked has been woken by the handler, which has yielded to the
\* task, and has returned with the only token of the queue.
C5_Witness ==
    /\ yielded
    /\ isrPc = "idle"
    /\ dmaQueue = <<>>
    /\ ReturnedWithNewBuffer

\* The task of the end-to-end scenario has pushed all its frames.
E2EDone == bufCnt = E2E_BUFCNT /\ bufLen = E2E_BUFLEN /\ todo = 0 /\ pushPc = "idle"

\* C6 as stated: over the pushes of the scenario the task makes exactly one
\* dequeue and ends with offset 2.
C6_OneDequeue == E2EDone => (dequeues = 1 /\ currDMABuffPos = 2)

\* C6: over the pushes of the scenario the task makes exactly two dequeues,
\* one at its first push, when it holds no buffer, and one at the push that
\* follows the E2E_BUFLEN-th, and ends with offset E2E_FRAMES - E2E_BUFLEN.
C6_TwoDequeues ==
    /\ E2EDone => (dequeues = 2 /\ currDMABuffPos = E2E_FRAMES - E2E_BUFLEN)
    /\ (bufCnt = E2E_BUFCNT /\ todo = E2E_FRAMES - 1 /\ pushPc = "idle") => dequeues = 1
    /\ (bufCnt = E2E_BUFCNT /\ todo = E2E_FRAMES - E2E_BUFLEN /\ pushPc = "idle") =>
           (dequeues = 1 /\ currDMABuffPos = E2E_BUFLEN)

\* The scenario has run to its end.
C6_Witness == E2EDone /\ dequeues = 2 /\ lastStore.idx = 1 /\ initPc = "done"

\* ---- descriptor ring

\* The descriptors met by following n successors from descriptor d, d first.
RECURSIVE RingWalk(_, _)
RingWalk(d, n) ==
    IF n = 0 THEN <<>> ELSE <<d>> \o RingWalk(i2sBufDesc[d].empty, n - 1)

\* The descriptor reached from descriptor d after n successors.
RECURSIVE RingAfter(_, _)
RingAfter(d, n) == IF n = 0 THEN d ELSE RingAfter(i2sBufDesc[d].empty, n - 1)

\* C11: once i2sInit has returned, descriptor i refers to buffer i, has owner
\* and eof set, length = size = 4 * bufLen and successor (i+1) mod bufCnt;
\* following successors from descriptor 0 meets every descriptor once and is
\* back at descriptor 0 after bufCnt steps; and no step taken after i2sInit
\* has returned changes a descriptor.
C11_DescriptorRing ==
    /\ [](InitDone =>
            /\ \A i \in Bufs :
                  /\ i2sBufDesc[i].buf = i
                  /\ i2sBufDesc[i].owner = 1
                  /\ i2sBufDesc[i].eof = 1
                  /\ i2sBufDesc[i].length = 4 * bufLen
                  /\ i2sBufDesc[i].size = 4 * bufLen
                  /\ i2sBufDesc[i].empty = (i + 1) % bufCnt
            /\ i2sBufDesc[bufCnt - 1].empty = 0
            /\ Range(RingWalk(0, bufCnt)) = Bufs
            /\ Len(RingWalk(0, bufCnt)) = bufCnt
            /\ RingAfter(0, bufCnt) = 0)
    /\ [][InitDone => i2sBufDesc' = i2sBufDesc]_vars

\* The handler has counted an underrun, the task has pushed a frame and changed
\* the rate, the hardware has gone round the ring, and the ring is closed.
C11_Witness ==
    /\ InitDone
    /\ underrunCnt > 0
    /\ currDMABuffPos > 0
    /\ printed.rate # I2S_DEFAULT_SAMPLE_RATE
    /\ RingAfter(0, bufCnt) = 0
    /\ Range(RingWalk(0, bufCnt)) = Bufs

\* ---- allocation failure

\* i2sInit has gone past the allocation loop.
PastAlloc == initPc \notin {"underrunCnt", "alloc", "fault"}

\* C12: i2sInit goes past its allocation loop, builds a descriptor, enables the
\* handler or starts transmission only with all bufCnt buffers allocated.
C12_NoPartialPool ==
    (PastAlloc \/ ih \/ txStarted \/ \E x \in Bufs : i2sBufDesc[x].owner = 1) => PoolBuilt

\* ---- push step rule

\* C13: (1) a call of i2sPushSample goes to the dequeue exactly when the task
\* holds no buffer or its offset equals bufLen, and otherwise goes straight to
\* the store, leaving the queue as it is; (2) the dequeue makes the oldest
\* token the current buffer and sets the offset to 0; (3) the store puts the
\* frame of the call at the current offset of the current buffer and adds 1 to
\* the offset, leaving the current buffer and the queue as they are; (4) only
\* a call that went to the dequeue blocks.
C13_PushStepRule ==
    /\ [][(pushPc = "idle" /\ pushPc' # "idle") =>
             /\ pushPc' \in {"recv", "store"}
             /\ pushPc' = "recv" <=> (currDMABuff = NULL \/ currDMABuffPos = bufLen)
             /\ UNCHANGED <<dmaQueue, currDMABuff, currDMABuffPos, lastStore>>]_vars
    /\ [][(pushPc = "recv" /\ pushPc' = "store") =>
             /\ dmaQueue # <<>>
             /\ currDMABuff' = Head(dmaQueue)
             /\ dmaQueue' = Tail(dmaQueue)
             /\ currDMABuffPos' = 0
             /\ lastStore' = lastStore]_vars
    /\ [][(pushPc = "store" /\ pushPc' # "store") =>
             /\ pushPc' = "idle"
             /\ lastStore' = [buf |-> currDMABuff, idx |-> currDMABuffPos, val |-> sample]
             /\ currDMABuffPos' = currDMABuffPos + 1
             /\ currDMABuff' = currDMABuff
             /\ dmaQueue' = dmaQueue]_vars
    /\ [][(pushPc # "blocked" /\ pushPc' = "blocked") => pushPc = "recv"]_vars
    /\ [][pushPc' = "store" => pushPc \in {"idle", "recv", "store"}]_vars

\* A call that did not dequeue has filled the current buffer to its end, after
\* a call that dequeued; the next call will dequeue.
C13_Witness ==
    /\ InitDone
    /\ pushPc = "idle"
    /\ currDMABuffPos = bufLen
    /\ bufLen >= 2
    /\ lastStore = [buf |-> currDMABuff, idx |-> bufLen - 1, val |-> LastFrame]
    /\ dmaQueue # <<>>

\* ---- the handler's read and clear of the status

\* C14: the handler never clears a completion that the hardware raised after
\* the handler read the status: its read and its clear leave the hardware no
\* room in between.
C14_AtomicReadClear == [][(isrPc = "clear" /\ isrPc' # "clear") => ~unread]_vars

\* ---- the handler's queue operations

\* C15: a step of the handler that removes a token from the queue finds
\* bufCnt-1 tokens in it.  Stated for the runs in which every completion so
\* far arrived with the handler idle and nothing pending.
C15_DiscardOnlyWhenFull ==
    [][(isrPc = "recv" /\ ~late /\ Len(dmaQueue') < Len(dmaQueue)) =>
          Len(dmaQueue) = bufCnt - 1]_vars

\* C16: the queue never holds more than bufCnt-1 tokens; the handler's send
\* always appends the token of the descriptor it read as finished, as the
\* newest element; and a handler that has started always has a next step.
C16_IsrSendSucceeds ==
    /\ [](Len(dmaQueue) <= bufCnt - 1)
    /\ [][(isrPc = "send" /\ isrPc' # "send") =>
             /\ isrPc' = "exit"
             /\ Len(dmaQueue) < bufCnt - 1
             /\ dmaQueue' = Append(dmaQueue, i2sBufDesc[finishedDesc].buf)]_vars
    /\ [](isrPc # "idle" => ENABLED <<i2s_isr>>_vars)

\* The handler has counted an underrun, made room and sent the token of the
\* finished buffer, which fills the queue again.
C16_Witness ==
    /\ isrPc = "exit"
    /\ isrSnap.full
    /\ Len(dmaQueue) = bufCnt - 1
    /\ dmaQueue[Len(dmaQueue)] = i2sBufDesc[finishedDesc].buf
    /\ ~late

\* ---- handler dispatch

\* What a handler run can change outside its locals.
isrEffects == <<intRaw, dmaQueue, underrunCnt, pushPc, yielded>>

\* C17, for the handler run alone on any status: (1) entered with a zero
\* status the handler returns and changes nothing; (2) entered with a non-zero
\* status it goes on to clear every raw status bit, whatever it acts on;
\* (3) after the clear it goes to the descriptor read exactly when OUT_EOF is
\* in the status it read, and returns otherwise; (4) only a run with OUT_EOF in
\* the status it read changes the queue or the counter; (5) a run with OUT_EOF
\* goes from the descriptor read to the send, and the send appends the buffer
\* of the descriptor the hardware reports as finished.
C17_HandlerDispatch ==
    /\ [][(isrPc = "idle" /\ IntSt = {}) =>
             (isrPc' = "idle" /\ UNCHANGED isrEffects)]_vars
    /\ [][(isrPc = "idle" /\ IntSt # {}) =>
             (isrPc' = "clear" /\ slc_intr_status' = IntSt /\ UNCHANGED isrEffects)]_vars
    /\ [][(isrPc = "clear" /\ isrPc' # "clear") =>
             /\ intRaw' = {}
             /\ isrPc' = "desc" <=> "OUT_EOF" \in slc_intr_status
             /\ isrPc' = "exit" <=> "OUT_EOF" \notin slc_intr_status
             /\ UNCHANGED <<dmaQueue, underrunCnt>>]_vars
    /\ [][(dmaQueue' # dmaQueue \/ underrunCnt' # underrunCnt) =>
             "OUT_EOF" \in slc_intr_status]_vars
    /\ [][(isrPc = "desc" /\ isrPc' # "desc") => isrPc' = "full"]_vars
    /\ [][(isrPc = "full" /\ isrPc' # "full") => isrPc' \in {"recv", "send"}]_vars
    /\ [][(isrPc = "recv" /\ isrPc' # "recv") => isrPc' = "send"]_vars
    /\ [][(isrPc = "send" /\ isrPc' # "send") =>
             /\ isrPc' = "exit"
             /\ dmaQueue' = Append(dmaQueue, i2sBufDesc[outEofDesAddr].buf)]_vars

\* A run entered with OUT_EOF and another bit in its status has sent the token
\* of the finished buffer and left no raw bit set.
C17_Witness ==
    /\ isrPc = "exit"
    /\ slc_intr_status = {"OUT_EOF", "OUT_DONE"}
    /\ intRaw = {}
    /\ dmaQueue # <<>>
    /\ dmaQueue[Len(dmaQueue)] = i2sBufDesc[outEofDesAddr].buf

\* C18 as stated: every handler run whose queue operation made the blocked
\* producer ready requests a reschedule before it returns, and a run that made
\* no task ready requests none.
C18_WakeAlwaysYields ==
    [][(isrPc = "exit" /\ isrPc' = "idle") => (yielded' <=> woke)]_vars

\* C18, amended: the handler requests a reschedule before it returns exactly
\* when a queue operation of the run has set HPTaskAwoken, which happens only
\* in the send that makes the producer blocked in the dequeue ready, and then
\* only if the queue reports a task of higher priority than the interrupted
\* one.  A run that made no task ready therefore requests none; the flag
\* starts each run cleared and is not touched between the send and the return.
C18_YieldIffReported ==
    /\ [][(isrPc = "exit" /\ isrPc' = "idle") =>
             /\ yielded' <=> HPTaskAwoken
             /\ yielded' => woke]_vars
    /\ [][(HPTaskAwoken' /\ ~HPTaskAwoken) =>
             /\ isrPc = "send" /\ isrPc' = "exit"
             /\ pushPc = "blocked" /\ pushPc' = "recv"
             /\ dmaQueue' = Append(dmaQueue, i2sBufDesc[finishedDesc].buf)]_vars
    /\ [][(woke' /\ ~woke) => (pushPc = "blocked" /\ pushPc' = "recv")]_vars
    /\ [][(pushPc = "blocked" /\ pushPc' # "blocked") => woke']_vars
    /\ [][(isrPc = "idle" /\ isrPc' # "idle") => ~HPTaskAwoken']_vars
    /\ [][(HPTaskAwoken /\ ~HPTaskAwoken') => (isrPc = "exit" /\ isrPc' = "idle")]_vars
    /\ [](HPTaskAwoken => woke)

\* The handler has returned with a reschedule requested after it woke the
\* producer, which has not yet run on from its dequeue.
C18_Witness ==
    /\ isrPc = "idle"
    /\ yielded
    /\ pushPc = "recv"
    /\ dmaQueue # <<>>
    /\ underrunCnt = 0

\* C19: in every state reached by pushes interleaved with handler runs the
\* producer's write offset is within 0 .. capacity, and every sample store (the
\* step the task is about to take at "store") goes into a non-null current
\* buffer at an index strictly below the capacity: the task never ends in the
\* fault a store past the end of a buffer, or before a buffer was obtained,
\* would be.
C19_CursorBounds ==
    /\ currDMABuffPos \in 0..bufLen
    /\ pushPc = "store" => (currDMABuff \in Bufs /\ currDMABuffPos < bufLen)
    /\ pushPc # "fault"

\* After an underrun the task, having filled one buffer to its end, is about
\* to store the first frame of the next one it obtained.
C19_Witness ==
    /\ pushPc = "store"
    /\ currDMABuff # NULL
    /\ currDMABuffPos = 0
    /\ underrunCnt > 0
    /\ lastStore.buf # NULL
    /\ lastStore.buf # currDMABuff
    /\ lastStore.idx = bufLen - 1

\* The buffer that follows buffer b in the ring.
RingNext(b) == (b + 1) % bufCnt

\* The tokens of q, oldest first, are consecutive buffers of the ring.
Consecutive(q) == \A i \in 1..(Len(q) - 1) : q[i + 1] = RingNext(q[i])

\* No token occurs twice in q.
PairwiseDistinct(q) == \A i, j \in 1..Len(q) : q[i] = q[j] => i = j

\* C20: as long as every completion has been picked up by a handler run of its
\* own (none arrived before the handler had fetched the previous one), the tokens in the queue, oldest first, are
\* consecutive buffers of the ring and pairwise distinct; and the task
\* dequeues buffer 0 first and after buffer b the buffer that follows b in the
\* ring, except where the handler has removed a token from the queue since the
\* task's previous dequeue.
C20_QueueFollowsRing ==
    /\ []((InitDone /\ ~merged) =>
             /\ Consecutive(dmaQueue)
             /\ PairwiseDistinct(dmaQueue)
             /\ Range(dmaQueue) \subseteq Bufs)
    /\ [][(pushPc = "recv" /\ pushPc' = "store" /\ ~merged /\ ~discarded) =>
             currDMABuff' = IF currDMABuff = NULL THEN 0
                            ELSE RingNext(currDMABuff)]_vars
    /\ [][(pushPc = "recv" /\ pushPc' = "store" /\ ~merged) =>
             currDMABuff' \in Bufs]_vars

\* With an underrun behind it and every completion serviced by its own run,
\* the task has just dequeued the buffer that follows the one it filled last,
\* and the queue is full again with the buffers that follow that one.
C20_Witness ==
    /\ ~merged
    /\ underrunCnt > 0
    /\ pushPc = "store"
    /\ currDMABuffPos = 0
    /\ lastStore.buf # NULL
    /\ currDMABuff = RingNext(lastStore.buf)
    /\ Len(dmaQueue) = bufCnt - 1
    /\ dmaQueue[1] = RingNext(currDMABuff)

=============================================================================
